---- MODULE Spec2Model ----
(***************************************************************************)
(* The historical price backfill of src/backfill_historical_prices.py:     *)
(* CheckpointManager, the merge of the timeframe tables in                 *)
(* extract_historical_prices, and the per-product loop of backfill_prices, *)
(* run several times over one checkpoint file and one price store.         *)
(*                                                                         *)
(* Calendar dates are day numbers.  The code compares dates as             *)
(* "%Y-%m-%d" strings, which order as the days they denote.                *)
(***************************************************************************)
EXTENDS Integers, Sequences, FiniteSets, TLC

\* ---------------------------------------------------------------- bounds
NumProducts == 2
MaxRuns == 2
MaxWriteFailures == 1
Days == 2
\* RATE_LIMIT_CONFIG['session_recycle_after'] (50 in the source), scaled to the
\* size of the catalog so that a run reaches it.
session_recycle_after == 2
\* Largest sum of the three statistics the calls on a CheckpointManager are
\* followed to.
MaxStatTotal == 1
\* Longest list of entries and largest batch_size batch_insert_price_history
\* is followed with.
MaxEntries == 4
MaxBatchSize == 2
\* Largest catalog the index ranges of the forward and reverse runs are
\* computed for.
MaxCatalog == 4
\* Most rows a paginated query has to return, and the largest batch_size it
\* is made with.
MaxTableRows == 3
MaxPageSize == 2
\* Longest list of candidates _select_api_result is given.
MaxResults == 3
\* Seconds the clock is followed for after the RateLimiter is made, and the
\* largest error count its calls are followed to.
MaxClock == 10
MaxRateErrors == 2
\* Most products the session of the browser is followed over.
MaxLoopItems == 6
\* Most products the retry loop and the RateLimiter of a run are followed over.
MaxFetchItems == 3

\* ------------------------------------------------------ program constants
max_retries == 3
min_delay == 2
max_delay == 5
retry_backoff_base == 2
NoRelease == -1
TIMEFRAME_BUTTONS == <<"1M", "3M", "6M", "1Y">>

\* -------------------------------------------------------- the date window
utc_now == Days + 2
yesterday == utc_now - 1
target_end_date == yesterday
target_start_date == yesterday - Days

Dates == 0..utc_now
DayBefore == target_start_date - 1
DayInside == target_start_date + 1
DayAfter == target_end_date + 1

Products == 1..NumProducts

\* The catalogs and the stores a run can start from: over the choices of k
\* and j every product gets every release date with every set of rows.
ReleaseOrder == <<NoRelease, DayBefore, DayInside, DayAfter>>
RowsOrder == <<{}, DayInside..target_end_date>>
Catalog(k) == [p \in Products |-> ReleaseOrder[((p + k) % Len(ReleaseOrder)) + 1]]
InitialStore(j) ==
    UNION {{<<p, d>> : d \in RowsOrder[((p + j) % Len(RowsOrder)) + 1]} : p \in Products}

\* ------------------------------------------------------------- helpers
SeqRange(s) == {s[i] : i \in 1..Len(s)}
SeqDates(s) == {s[i].date : i \in 1..Len(s)}
Reversed(s) == [i \in 1..Len(s) |-> s[Len(s) + 1 - i]]

\* ----------------------------------------------------- CheckpointManager
EmptyCheckpoint ==
    [processed_products |-> <<>>,
     failed_products |-> <<>>,
     stats |-> [total_inserted |-> 0, total_failed |-> 0, total_skipped |-> 0]]

FileAbsent == [state |-> "absent", content |-> EmptyCheckpoint]
FileTruncated == [state |-> "truncated", content |-> EmptyCheckpoint]
\* A save that writes the two lists and leaves the statistics out.
FileHoldingNoStats(d) ==
    [state |-> "valid", content |-> [d EXCEPT !.stats = EmptyCheckpoint.stats]]

FileHolding(d) == [state |-> "valid", content |-> d]
\* A checkpoint path that can be neither read nor written.
FileUnreachable == [state |-> "unreachable", content |-> EmptyCheckpoint]

\* _load: the parsed file, or a fresh record when the file is missing or
\* json.load raises on it.
Load(f) == IF f.state = "valid" THEN f.content ELSE EmptyCheckpoint

\* is_processed looking the id up in the wrong list.
is_processed_in_failed(d, id) == id \in SeqRange(d.failed_products)

is_processed(d, id) == id \in SeqRange(d.processed_products)

MarkProcessedOp(id) == [op |-> "mark_processed", id |-> id, inserted |-> 0, failed |-> 0, skipped |-> 0]
MarkFailedOp(id) == [op |-> "mark_failed", id |-> id, inserted |-> 0, failed |-> 0, skipped |-> 0]
UpdateStatsOp(i, f, s) == [op |-> "update_stats", id |-> 0, inserted |-> i, failed |-> f, skipped |-> s]

\* The mark calls without their membership test.
MutatesAlways(d, o) == TRUE

\* Whether the call changes the in-memory record (and therefore saves).
Mutates(d, o) ==
    CASE o.op = "mark_processed" -> o.id \notin SeqRange(d.processed_products)
      [] o.op = "mark_failed" -> o.id \notin SeqRange(d.failed_products)
      [] OTHER -> TRUE

\* The in-memory record after the call's update.
Applied(d, o) ==
    CASE o.op = "mark_processed" ->
            [d EXCEPT !.processed_products = Append(@, o.id)]
      [] o.op = "mark_failed" ->
            [d EXCEPT !.failed_products = Append(@, o.id)]
      [] OTHER ->
            [d EXCEPT !.stats = [total_inserted |-> @.total_inserted + o.inserted,
                                 total_failed |-> @.total_failed + o.failed,
                                 total_skipped |-> @.total_skipped + o.skipped]]

\* ------------------------------------------------ extract_historical_prices
Entry(d, p) == [date |-> d, price |-> p]
NoTables == [k \in 1..Len(TIMEFRAME_BUTTONS) |-> <<>>]

RECURSIVE Concat(_, _)
Concat(tables, k) ==
    IF k > Len(TIMEFRAME_BUTTONS) THEN <<>> ELSE tables[k] \o Concat(tables, k + 1)

\* all_historical_data: the tables of the timeframes, appended in the order
\* of TIMEFRAME_BUTTONS.
AllHistoricalData(tables) == Concat(tables, 1)

RECURSIVE KeepFirst(_, _, _)
KeepFirst(s, i, acc) ==
    IF i > Len(s) THEN acc
    ELSE IF s[i].date \in SeqDates(acc) THEN KeepFirst(s, i + 1, acc)
    ELSE KeepFirst(s, i + 1, Append(acc, s[i]))

\* The deduplication loop: over reversed(all_historical_data), the first
\* entry seen for a date is kept.
Deduplicate(all) == KeepFirst(Reversed(all), 1, <<>>)

\* What one call returns: [] when the page load fails, else the merged tables.
extract_historical_prices(outcome) ==
    IF outcome.kind = "timeout" THEN <<>>
    ELSE Deduplicate(AllHistoricalData(outcome.tables))

\* The pages a fetch can see.
PageOverlap == [NoTables EXCEPT ![1] = <<Entry(DayInside, 5)>>,
                                ![4] = <<Entry(target_start_date, 7), Entry(DayInside, 7)>>]
PageBadPrice == [NoTables EXCEPT ![1] = <<Entry(target_end_date, 0)>>,
                                 ![2] = <<Entry(target_start_date, 0 - 1)>>]
PageOutside == [NoTables EXCEPT ![2] = <<Entry(DayBefore, 5), Entry(DayAfter, 5)>>]
Pages == {NoTables, PageOverlap, PageBadPrice, PageOutside}
FetchOutcomes ==
    {[kind |-> "timeout", tables |-> NoTables]} \cup {[kind |-> "page", tables |-> t] : t \in Pages}
NoOutcome == [kind |-> "none", tables |-> NoTables]

\* ---------------------------------------------------------- backfill_prices
\* product_start_date: the later of the window start and the release date.
ProductStartDate(rel) ==
    IF rel # NoRelease /\ rel > target_start_date THEN rel ELSE target_start_date

\* The elif of the release-date block: reached only when the first test fails.
ReleasedAfterRange(rel) ==
    rel # NoRelease /\ ~(rel > target_start_date) /\ rel > target_end_date

fetch_existing_price_dates(rows, id, start, end) ==
    {d \in Dates : <<id, d>> \in rows /\ start <= d /\ d <= end}

ExpectedDays(start) == (target_end_date - start) + 1

HasCompleteData(existing, start) == Cardinality(existing) >= ExpectedDays(start)

\* The range filter without its lower end.
InTargetRangeNoFloor(entry, start) == entry.date <= target_end_date

InTargetRange(entry, start) == start <= entry.date /\ entry.date <= target_end_date

FilteredData(hd, start) ==
    LET Keep(e) == InTargetRange(e, start) IN SelectSeq(hd, Keep)

\* The second filter keeping the dates the coverage query returned.
NewEntriesUnfiltered(filtered, existing) == filtered

NewEntries(filtered, existing) ==
    LET Keep(e) == e.date \notin existing IN SelectSeq(filtered, Keep)

BatchEntries(id, es) ==
    [i \in 1..Len(es) |->
        [product_id |-> id, usd_price |-> es[i].price, recorded_at |-> es[i].date]]

\* The retry loop running one attempt too many.
MoreAttemptsOffByOne(n) == n <= max_retries

\* The for loop goes on to another attempt.
MoreAttempts(n) == n < max_retries

\* The filter reading failed_products in place of processed_products.
ProductsToProcessSkipFailed(d) ==
    LET Keep(p) == p \notin SeqRange(d.failed_products)
    IN SelectSeq([i \in 1..NumProducts |-> i], Keep)

\* The loop taking up every product, processed or not.
ProductsToProcessUnfiltered(d) == [i \in 1..NumProducts |-> i]

ProductsToProcess(d) ==
    LET Keep(p) == ~is_processed(d, p) IN SelectSeq([i \in 1..NumProducts |-> i], Keep)

\* The session recycling test letting one more product through.
RecycleDueLate(n) == n > session_recycle_after

\* The session recycling test, on the count that includes the current product.
RecycleDue(n) == n >= session_recycle_after

SkipOps(id) == <<MarkProcessedOp(id), UpdateStatsOp(0, 0, 1)>>
\* The calls for a product without data, mark_failed left out.
FailOpsStatsOnly(id) == <<UpdateStatsOp(0, 1, 0)>>

FailOps(id) == <<MarkFailedOp(id), UpdateStatsOp(0, 1, 0)>>
\* The calls after an insert, a product with a failed insert being marked failed.
InsertOpsFailedOnError(id, i, f) ==
    <<UpdateStatsOp(i, f, 0), IF f > 0 THEN MarkFailedOp(id) ELSE MarkProcessedOp(id)>>

InsertOps(id, i, f) == <<UpdateStatsOp(i, f, 0), MarkProcessedOp(id)>>

VARIABLES
    run,                  \* number of the current process run
    pc,                   \* position of the run in backfill_prices
    file,                 \* the checkpoint file
    store,                \* product_price_history: rows <<product_id, date>>
    release,              \* release date of each product of the catalog
    data,                 \* CheckpointManager.data
    products_to_process,
    idx,                  \* position of the loop in products_to_process
    product_start_date,
    existing_dates,
    attempt,
    historical_data,
    new_entries,
    ops,                  \* checkpoint calls of the current product, in order
    opi,                  \* the call being executed
    phase,                \* position inside that call: mutate, open, dump
    writeFailures,        \* failed writes so far
    submitted,            \* entries handed to batch_insert_price_history in this run
    page,                 \* the tables historical_data was merged from
    attemptLog,           \* results of the attempts of the current product
    queried,              \* a coverage query was issued for the current product
    storeAtCheck,         \* dates the store held for it when the coverage step ran
    committed,            \* the record as of the last checkpoint call that returned
    loaded,               \* the record the run loaded at its start
    prevComplete,         \* the previous run reached its end
    coverageFailed,       \* a coverage query has raised, in this run or an earlier one
    session_product_count

backfillOther == <<run, pc, file, store, release, data, products_to_process, idx,
                   product_start_date, existing_dates, attempt, historical_data, new_entries,
                   ops, opi, phase, writeFailures, submitted, page, attemptLog, queried,
                   storeAtCheck, committed, loaded, prevComplete, coverageFailed>>

backfillVars == <<backfillOther, session_product_count>>

\* The variables of the operations that are checked on their own, further down.
VARIABLES
    call,                 \* the last call made on the CheckpointManager, and its write
    entries,              \* batch_insert_price_history: its argument
    batch_size,
    batch_start,          \* the i of its for loop
    fallback_pos,         \* position of the fallback loop in the batch
    inserted_count,
    failed_count,
    bpc,                  \* position of the call
    sink,                 \* entries product_price_history took
    insert_calls,         \* the insert requests made, in order
    total_count,          \* __main__: number of products of the catalog
    forward_products,     \* indices a --forward run takes, in its order
    reverse_products,     \* indices a --reverse run takes, in its order
    default_products,     \* indices a run without flags takes
    range_args,           \* start_idx, end_idx, reverse of a direct call
    range_products,       \* indices that call takes
    fetch_attempt,        \* retry loop of one product: attempt
    timeframe_idx,        \* extract_historical_prices: position in TIMEFRAME_BUTTONS
    fpc,                  \* position in the retry loop
    consecutive_errors,   \* RateLimiter.consecutive_errors
    got,                  \* timeframes of the attempt that gave entries
    attempt_events,       \* waits and clicks of the attempt, in order
    fetch_driver,         \* number of the browser session the retry loop fetches with
    transport_failure,    \* the last attempt whose page load timed out, and its driver
    fetch_log,            \* how the retry loop of each product so far ended: "data" or "empty"
    page_query,           \* the paginated function called: "products" or "dates"
    table_rows,           \* rows of the table the query reads, in the store's order
    page_batch_size,      \* its batch_size
    page_offset,          \* its offset
    page_requests,        \* offsets of the range requests made, in order
    all_products,         \* fetch_products_paginated: rows collected
    dates_found,          \* fetch_existing_price_dates: its existing_dates
    ppc,                  \* position of the call
    api_results,          \* _select_api_result: data["result"]
    preferred_variant,
    preferred_language,
    selected,             \* what the call returned
    selected_before,      \* what the call before it returned
    now,                  \* time.time(), in seconds
    last_request_time,    \* RateLimiter.last_request_time
    last_wait,            \* the last call of RateLimiter.wait that returned
    driver_no,            \* number of the browser session `driver` is
    session_log,          \* per product of the loop: its driver, and whether it was fetched
    date_str,             \* parse_short_date: its argument, as split and int() see it
    today,                \* the current UTC date
    parsed                \* what the call returned

batchVars == <<entries, batch_size, batch_start, fallback_pos, inserted_count,
               failed_count, bpc, sink, insert_calls>>

shardVars == <<total_count, forward_products, reverse_products, default_products,
               range_args, range_products>>

fetchVars == <<fetch_attempt, timeframe_idx, fpc, consecutive_errors, got, attempt_events,
               fetch_driver, transport_failure, fetch_log>>

pageVars == <<page_query, table_rows, page_batch_size, page_offset, page_requests,
              all_products, dates_found, ppc>>

selectVars == <<api_results, preferred_variant, preferred_language, selected,
                selected_before>>

rateVars == <<now, last_request_time, last_wait>>

sessionVars == <<driver_no, session_log>>

dateVars == <<date_str, today, parsed>>

auxVars == <<call, batchVars, shardVars, fetchVars, pageVars, selectVars, rateVars,
             sessionVars, dateVars>>

\* What each of the operations checked on its own leaves alone.
outsideCheckpoint == <<batchVars, shardVars, fetchVars, pageVars, selectVars, rateVars, sessionVars,
    dateVars>>
outsideBatch == <<backfillVars, call, shardVars, fetchVars, pageVars, selectVars, rateVars, sessionVars,
    dateVars>>
outsideShard == <<backfillVars, call, batchVars, fetchVars, pageVars, selectVars, rateVars, sessionVars,
    dateVars>>
outsideFetch == <<backfillVars, call, batchVars, shardVars, pageVars, selectVars, rateVars, sessionVars,
    dateVars>>
outsidePage == <<backfillVars, call, batchVars, shardVars, fetchVars, selectVars, rateVars, sessionVars,
    dateVars>>
outsideSelect == <<backfillVars, call, batchVars, shardVars, fetchVars, pageVars, rateVars, sessionVars,
    dateVars>>
outsideRate == <<backfillVars, call, batchVars, shardVars, pageVars, selectVars,
                 sessionVars, fetch_attempt, timeframe_idx, fpc, got, attempt_events,
                 fetch_driver, transport_failure, fetch_log, dateVars>>
outsideSession == <<backfillOther, call, batchVars, shardVars, fetchVars, pageVars,
                    selectVars, rateVars, dateVars>>
outsideDate == <<backfillVars, call, batchVars, shardVars, fetchVars, pageVars,
                 selectVars, rateVars, sessionVars>>

\* None, for an index or a list that has not been given or computed.
NoIndex == -1
NotRun == <<NoIndex>>

vars == <<backfillVars, auxVars>>

NoCall == [op |-> MarkProcessedOp(0), write |-> "none", recorded |-> FALSE]
BatchIdle ==
    /\ entries = <<>>
    /\ batch_size = 1
    /\ batch_start = 0
    /\ fallback_pos = 0
    /\ inserted_count = 0
    /\ failed_count = 0
    /\ bpc = "idle"
    /\ sink = {}
    /\ insert_calls = <<>>

ShardIdle ==
    /\ total_count = 0
    /\ forward_products = NotRun
    /\ reverse_products = NotRun
    /\ default_products = NotRun
    /\ range_args = <<NoIndex, NoIndex, FALSE>>
    /\ range_products = NotRun

NoFailure == [attempt |-> 0, driver |-> 0]

FetchIdle ==
    /\ fetch_attempt = 0
    /\ timeframe_idx = 0
    /\ fpc = "idle"
    /\ consecutive_errors = 0
    /\ got = {}
    /\ attempt_events = <<>>
    /\ fetch_driver = 1
    /\ transport_failure = NoFailure
    /\ fetch_log = <<>>

PageIdle ==
    /\ page_query = "products"
    /\ table_rows = <<>>
    /\ page_batch_size = 1
    /\ page_offset = 0
    /\ page_requests = <<>>
    /\ all_products = <<>>
    /\ dates_found = {}
    /\ ppc = "idle"

\* None, for a language or a variant; the result None, and no result yet.
NoValue == "None"
NoCandidate == [pos |-> 0, language |-> NoValue, variant |-> NoValue]
NotCalled == [pos |-> NoIndex, language |-> NoValue, variant |-> NoValue]

SelectIdle ==
    /\ api_results = <<>>
    /\ preferred_variant = NoValue
    /\ preferred_language = NoValue
    /\ selected = NotCalled
    /\ selected_before = NotCalled

RECURSIVE Pow(_, _)
Pow(b, n) == IF n = 0 THEN 1 ELSE b * Pow(b, n - 1)

\* time.time() when the RateLimiter is made: later than any delay after 0.
ClockStart == max_delay + Pow(retry_backoff_base, MaxRateErrors + 1) + 1
NoWait == [called_at |-> 0, prev_return |-> 0, errors |-> 0, delay |-> 0,
           slept |-> 0, returned_at |-> 0, errors_after |-> 0]

RateIdle ==
    /\ now = ClockStart
    /\ last_request_time = 0
    /\ last_wait = NoWait

\* The driver made before the loop, no product taken up yet.
SessionIdle ==
    /\ driver_no = 1
    /\ session_log = <<>>

Date(y, m, d) == [year |-> y, month |-> m, day |-> d]
\* None, and no call made yet.
NoDate == Date(0, 0, 0)
NotParsed == Date(NoIndex, 0, 0)
ShortDate(n, numeric, m, d) == [parts |-> n, numeric |-> numeric, month |-> m, day |-> d]

DateIdle ==
    /\ date_str = ShortDate(0, FALSE, 0, 0)
    /\ today = NoDate
    /\ parsed = NotParsed

AuxIdle ==
    /\ call = NoCall
    /\ BatchIdle
    /\ ShardIdle
    /\ FetchIdle
    /\ PageIdle
    /\ SelectIdle
    /\ RateIdle
    /\ SessionIdle
    /\ DateIdle

product_id == products_to_process[idx]

\* The locals of the loop body as they are before a product is taken up.
ClearLocals ==
    /\ product_start_date' = target_start_date
    /\ existing_dates' = {}
    /\ attempt' = 0
    /\ historical_data' = <<>>
    /\ new_entries' = <<>>
    /\ page' = NoOutcome
    /\ attemptLog' = <<>>
    /\ queried' = FALSE
    /\ storeAtCheck' = {}

ResetLocals ==
    /\ ClearLocals
    /\ ops' = <<>>
    /\ opi' = 1
    /\ phase' = "mutate"

\* The state in which the script is started for the first time.
BackfillStart(f, j, k) ==
    /\ run = 1
    /\ pc = "init"
    /\ file = f
    /\ store = InitialStore(j)
    /\ release = Catalog(k)
    /\ data = EmptyCheckpoint
    /\ products_to_process = <<>>
    /\ idx = 0
    /\ product_start_date = target_start_date
    /\ existing_dates = {}
    /\ attempt = 0
    /\ historical_data = <<>>
    /\ new_entries = <<>>
    /\ ops = <<>>
    /\ opi = 1
    /\ phase = "mutate"
    /\ writeFailures = 0
    /\ submitted = {}
    /\ page = NoOutcome
    /\ attemptLog = <<>>
    /\ queried = FALSE
    /\ storeAtCheck = {}
    /\ committed = EmptyCheckpoint
    /\ loaded = EmptyCheckpoint
    /\ prevComplete = FALSE
    /\ coverageFailed = FALSE
    /\ session_product_count = 0

Init ==
    /\ \E j \in 0..(Len(RowsOrder) - 1), k \in 0..(Len(ReleaseOrder) - 1) :
           BackfillStart(FileAbsent, j, k)
    /\ AuxIdle

\* The same, the checkpoint path being one that may also be unreachable.
InitFaults ==
    /\ \E f \in {FileAbsent, FileUnreachable}, j \in 0..(Len(RowsOrder) - 1),
          k \in 0..(Len(ReleaseOrder) - 1) :
           BackfillStart(f, j, k)
    /\ AuxIdle

\* CheckpointManager(checkpoint_file) and the filter of processed products.
Start ==
    /\ pc = "init"
    /\ data' = Load(file)
    /\ loaded' = Load(file)
    /\ committed' = Load(file)
    /\ products_to_process' = ProductsToProcess(Load(file))
    /\ idx' = 0
    /\ submitted' = {}
    /\ pc' = "loop"
    /\ session_product_count' = 0
    /\ ResetLocals
    /\ UNCHANGED <<run, file, store, release, writeFailures, prevComplete, coverageFailed>>
    /\ UNCHANGED auxVars

\* The checkpoint calls `calls` are to be made for the current product.
Decide(calls) ==
    /\ ops' = calls
    /\ opi' = 1
    /\ phase' = "mutate"
    /\ pc' = "ckpt"

\* Loop head: the next product, session recycling (the new driver being
\* created) and the release-date block.
LoopHead ==
    /\ pc = "loop"
    /\ idx < Len(products_to_process)
    /\ idx' = idx + 1
    /\ session_product_count' =
          IF RecycleDue(session_product_count + 1) THEN 0 ELSE session_product_count + 1
    /\ LET p == products_to_process[idx + 1]
           rel == release[p]
       IN /\ product_start_date' = ProductStartDate(rel)
          /\ IF ReleasedAfterRange(rel)
             THEN Decide(SkipOps(p))
             ELSE /\ pc' = "coverage"
                  /\ ops' = <<>>
                  /\ opi' = 1
                  /\ phase' = "mutate"
    /\ existing_dates' = {}
    /\ attempt' = 0
    /\ historical_data' = <<>>
    /\ new_entries' = <<>>
    /\ page' = NoOutcome
    /\ attemptLog' = <<>>
    /\ queried' = FALSE
    /\ storeAtCheck' = {}
    /\ UNCHANGED <<run, file, store, release, data, products_to_process,
                   writeFailures, submitted, committed, loaded, prevComplete, coverageFailed>>
    /\ UNCHANGED auxVars

\* Loop head, session recycling being due and create_driver raising: no
\* handler of the loop catches the exception, the finally block cleans up and
\* the exception leaves backfill_prices.
LoopHeadRecycleRaises ==
    /\ pc = "loop"
    /\ idx < Len(products_to_process)
    /\ RecycleDue(session_product_count + 1)
    /\ idx' = idx + 1
    /\ session_product_count' = session_product_count + 1
    /\ pc' = "raised"
    /\ UNCHANGED <<run, file, store, release, data, products_to_process,
                   product_start_date, existing_dates, attempt, historical_data,
                   new_entries, ops, opi, phase, writeFailures, submitted, page,
                   attemptLog, queried, storeAtCheck, committed, loaded, prevComplete,
                   coverageFailed>>
    /\ UNCHANGED auxVars

\* KeyboardInterrupt during the loop: the except clause logs, the finally
\* block cleans up and backfill_prices prints the statistics and returns.
Interrupt ==
    /\ pc \in {"loop", "coverage", "attempt", "insert", "ckpt"}
    /\ pc' = "interrupted"
    /\ products_to_process' = <<>>
    /\ idx' = 0
    /\ session_product_count' = 0
    /\ ResetLocals
    /\ UNCHANGED <<run, file, store, release, data, writeFailures, submitted,
                   committed, loaded, prevComplete, coverageFailed>>
    /\ UNCHANGED auxVars

\* The loop is exhausted: the run prints its statistics and ends.
Finish ==
    /\ pc = "loop"
    /\ idx = Len(products_to_process)
    /\ pc' = "done"
    /\ UNCHANGED <<run, file, store, release, data, products_to_process, idx,
                   product_start_date, existing_dates, attempt, historical_data,
                   new_entries, ops, opi, phase, writeFailures, submitted, page,
                   attemptLog, queried, storeAtCheck, committed, loaded, prevComplete, coverageFailed>>
    /\ UNCHANGED <<session_product_count, auxVars>>

\* The coverage query answers.
CoverageCheck ==
    /\ pc = "coverage"
    /\ LET existing == fetch_existing_price_dates(store, product_id, product_start_date, target_end_date)
       IN /\ existing_dates' = existing
          /\ storeAtCheck' = existing
          /\ IF HasCompleteData(existing, product_start_date)
             THEN /\ Decide(SkipOps(product_id))
                  /\ attempt' = attempt
             ELSE /\ pc' = "attempt"
                  /\ attempt' = 1
                  /\ UNCHANGED <<ops, opi, phase>>
    /\ queried' = TRUE
    /\ UNCHANGED <<run, file, store, release, data, products_to_process, idx,
                   product_start_date, historical_data, new_entries, writeFailures,
                   submitted, page, attemptLog, committed, loaded, prevComplete, coverageFailed>>
    /\ UNCHANGED <<session_product_count, auxVars>>

\* The coverage query raises: the except branch empties existing_dates and
\* the run goes on to scrape.
CoverageCheckError ==
    /\ pc = "coverage"
    /\ existing_dates' = {}
    /\ storeAtCheck' = fetch_existing_price_dates(store, product_id, product_start_date, target_end_date)
    /\ queried' = TRUE
    /\ coverageFailed' = TRUE
    /\ pc' = "attempt"
    /\ attempt' = 1
    /\ UNCHANGED <<run, file, store, release, data, products_to_process, idx,
                   product_start_date, historical_data, new_entries, ops, opi, phase,
                   writeFailures, submitted, page, attemptLog, committed, loaded,
                   prevComplete>>
    /\ UNCHANGED <<session_product_count, auxVars>>

AttemptResult(hd) == IF hd # <<>> THEN "data" ELSE "empty"

\* One pass of the retry loop, and, once data came back, the two filters.
Attempt ==
    /\ pc = "attempt"
    /\ \E outcome \in FetchOutcomes :
         LET hd == extract_historical_prices(outcome)
             filtered == FilteredData(hd, product_start_date)
             new == NewEntries(filtered, existing_dates)
         IN /\ page' = IF hd # <<>> THEN outcome ELSE NoOutcome
            /\ historical_data' = hd
            /\ attemptLog' = Append(attemptLog, AttemptResult(hd))
            /\ IF hd # <<>>
               THEN /\ attempt' = attempt
                    /\ IF filtered = <<>> \/ new = <<>>
                       THEN /\ Decide(SkipOps(product_id))
                            /\ new_entries' = <<>>
                       ELSE /\ pc' = "insert"
                            /\ new_entries' = new
                            /\ UNCHANGED <<ops, opi, phase>>
               ELSE IF MoreAttempts(attempt)
               THEN /\ attempt' = attempt + 1
                    /\ UNCHANGED <<pc, new_entries, ops, opi, phase>>
               ELSE /\ attempt' = attempt
                    /\ Decide(FailOps(product_id))
                    /\ new_entries' = <<>>
    /\ UNCHANGED <<run, file, store, release, data, products_to_process, idx,
                   product_start_date, existing_dates, writeFailures, submitted,
                   queried, storeAtCheck, committed, loaded, prevComplete, coverageFailed>>
    /\ UNCHANGED <<session_product_count, auxVars>>

\* batch_insert_price_history on the new entries: the entries in `ok` get
\* inserted, the others fail.
Insert ==
    /\ pc = "insert"
    /\ LET batch == BatchEntries(product_id, new_entries)
       IN /\ submitted' = submitted \cup SeqRange(batch)
          /\ \E ok \in SUBSET SeqRange(batch) :
               /\ store' = store \cup {<<e.product_id, e.recorded_at>> : e \in ok}
               /\ Decide(InsertOps(product_id, Cardinality(ok), Len(batch) - Cardinality(ok)))
    /\ UNCHANGED <<run, file, release, data, products_to_process, idx,
                   product_start_date, existing_dates, attempt, historical_data,
                   new_entries, writeFailures, page, attemptLog, queried,
                   storeAtCheck, committed, loaded, prevComplete, coverageFailed>>
    /\ UNCHANGED <<session_product_count, auxVars>>

\* The current checkpoint call returns; after the last one the loop goes on.
Return ==
    /\ opi' = opi + 1
    /\ phase' = "mutate"
    /\ pc' = IF opi = Len(ops) THEN "loop" ELSE "ckpt"

\* mark_processed, mark_failed, update_stats: the in-memory update.  The
\* locals of the loop body are not read again once the calls have begun.
CheckpointCall ==
    /\ pc = "ckpt"
    /\ phase = "mutate"
    /\ IF Mutates(data, ops[opi])
       THEN /\ data' = Applied(data, ops[opi])
            /\ phase' = "open"
            /\ UNCHANGED <<pc, opi, committed>>
       ELSE /\ Return
            /\ UNCHANGED <<data, committed>>
    /\ ClearLocals
    /\ UNCHANGED <<run, file, store, release, products_to_process, idx, ops,
                   writeFailures, submitted, loaded, prevComplete, coverageFailed>>
    /\ UNCHANGED <<session_product_count, auxVars>>

\* save: open(checkpoint_file, 'w') truncates the file.
SaveOpen ==
    /\ pc = "ckpt"
    /\ phase = "open"
    /\ file.state # "unreachable"
    /\ file' = FileTruncated
    /\ phase' = "dump"
    /\ UNCHANGED <<run, pc, store, release, data, products_to_process, idx,
                   product_start_date, existing_dates, attempt, historical_data,
                   new_entries, ops, opi, writeFailures, submitted, page, attemptLog,
                   queried, storeAtCheck, committed, loaded, prevComplete, coverageFailed>>
    /\ UNCHANGED <<session_product_count, auxVars>>

\* save letting the exception of open leave the call and the loop.
SaveOpenRaises ==
    /\ pc = "ckpt"
    /\ phase = "open"
    /\ writeFailures < MaxWriteFailures
    /\ writeFailures' = writeFailures + 1
    /\ pc' = "raised"
    /\ UNCHANGED <<run, file, store, release, data, products_to_process, idx,
                   product_start_date, existing_dates, attempt, historical_data,
                   new_entries, ops, opi, phase, submitted, page, attemptLog, queried,
                   storeAtCheck, committed, loaded, prevComplete, coverageFailed>>
    /\ UNCHANGED <<session_product_count, auxVars>>

\* save: open raises; the error is logged and the call returns.
SaveOpenFails ==
    /\ pc = "ckpt"
    /\ phase = "open"
    /\ writeFailures < MaxWriteFailures \/ file.state = "unreachable"
    /\ writeFailures' = IF writeFailures < MaxWriteFailures THEN writeFailures + 1 ELSE writeFailures
    /\ committed' = data
    /\ Return
    /\ UNCHANGED <<run, file, store, release, data, products_to_process, idx,
                   product_start_date, existing_dates, attempt, historical_data,
                   new_entries, ops, submitted, page, attemptLog, queried,
                   storeAtCheck, loaded, prevComplete, coverageFailed>>
    /\ UNCHANGED <<session_product_count, auxVars>>

\* save: json.dump writes the record.
SaveDump ==
    /\ pc = "ckpt"
    /\ phase = "dump"
    /\ file' = FileHolding(data)
    /\ committed' = data
    /\ Return
    /\ UNCHANGED <<run, store, release, data, products_to_process, idx,
                   product_start_date, existing_dates, attempt, historical_data,
                   new_entries, ops, writeFailures, submitted, page, attemptLog,
                   queried, storeAtCheck, loaded, prevComplete, coverageFailed>>
    /\ UNCHANGED <<session_product_count, auxVars>>

\* save: json.dump raises part way; the error is logged and the call returns.
SaveDumpFails ==
    /\ pc = "ckpt"
    /\ phase = "dump"
    /\ writeFailures < MaxWriteFailures
    /\ writeFailures' = writeFailures + 1
    /\ committed' = data
    /\ Return
    /\ UNCHANGED <<run, file, store, release, data, products_to_process, idx,
                   product_start_date, existing_dates, attempt, historical_data,
                   new_entries, ops, submitted, page, attemptLog, queried,
                   storeAtCheck, loaded, prevComplete, coverageFailed>>
    /\ UNCHANGED <<session_product_count, auxVars>>

\* The process of the next run starts with nothing but the file and the store.
NewProcess ==
    /\ run < MaxRuns
    /\ run' = run + 1
    /\ pc' = "init"
    /\ data' = EmptyCheckpoint
    /\ loaded' = EmptyCheckpoint
    /\ products_to_process' = <<>>
    /\ idx' = 0
    /\ submitted' = {}
    /\ session_product_count' = 0
    /\ ResetLocals
    /\ UNCHANGED <<file, store, release, writeFailures, committed, coverageFailed>>
    /\ UNCHANGED auxVars

\* The process stops in the middle of a run and the script is started again.
Crash ==
    /\ pc \in {"loop", "coverage", "attempt", "insert", "ckpt", "raised", "interrupted"}
    /\ prevComplete' = FALSE
    /\ NewProcess

\* The run ended and the script is started again with the same checkpoint file.
Resume ==
    /\ pc = "done"
    /\ prevComplete' = TRUE
    /\ NewProcess

\* A run in which no write fails and that is left to reach its end.
Next ==
    \/ Start
    \/ LoopHead
    \/ Finish
    \/ CoverageCheck
    \/ CoverageCheckError
    \/ Attempt
    \/ Insert
    \/ CheckpointCall
    \/ SaveOpen
    \/ SaveDump
    \/ Resume

Spec == Init /\ [][Next]_vars

\* The same runs, none of them stopping while it has a step to take: the
\* script runs on one thread, which goes on until backfill_prices returns.
SpecLive == Init /\ [][Next]_vars /\ WF_vars(Next)

\* One run, from its start to its end, with writes that fail.
NextWriteFaults ==
    \/ Start
    \/ LoopHead
    \/ Finish
    \/ CoverageCheck
    \/ CoverageCheckError
    \/ Attempt
    \/ Insert
    \/ CheckpointCall
    \/ SaveOpen
    \/ SaveDump
    \/ SaveOpenFails
    \/ SaveDumpFails

SpecWriteFaults == Init /\ [][NextWriteFaults]_vars

\* The same with failing writes and a process that can stop at any point.
NextFaults ==
    \/ Next
    \/ SaveOpenFails
    \/ SaveDumpFails
    \/ LoopHeadRecycleRaises
    \/ Interrupt
    \/ Crash

SpecFaults == InitFaults /\ [][NextFaults]_vars

\* ===================================================================
\* CheckpointManager on its own: any sequence of calls of mark_processed,
\* mark_failed and update_stats on one manager, each call with its save.
\* ===================================================================
InitCheckpoint ==
    /\ BackfillStart(FileAbsent, 0, 0)
    /\ AuxIdle

\* The id of a mark call is in the list the call appends to.
Recorded(d, o) ==
    \/ o.op = "mark_processed" /\ o.id \in SeqRange(d.processed_products)
    \/ o.op = "mark_failed" /\ o.id \in SeqRange(d.failed_products)

StatTotal(d) == d.stats.total_inserted + d.stats.total_failed + d.stats.total_skipped

\* save(), with the three ways it can end: written, open raised, json.dump raised.
SaveResult(w) ==
    /\ w # "ok" => writeFailures < MaxWriteFailures
    /\ writeFailures' = IF w = "ok" THEN writeFailures ELSE writeFailures + 1
    /\ file' = CASE w = "ok" -> FileHolding(data')
                  [] w = "open_failed" -> file
                  [] OTHER -> FileTruncated

\* One call, from its test to its return.
ApiCall(o) ==
    /\ IF Mutates(data, o)
       THEN /\ data' = Applied(data, o)
            /\ \E w \in {"ok", "open_failed", "dump_failed"} :
                  /\ SaveResult(w)
                  /\ call' = [op |-> o, write |-> w, recorded |-> Recorded(data, o)]
       ELSE /\ call' = [op |-> o, write |-> "none", recorded |-> Recorded(data, o)]
            /\ UNCHANGED <<data, file, writeFailures>>
    /\ UNCHANGED <<run, pc, store, release, products_to_process, idx,
                   product_start_date, existing_dates, attempt, historical_data,
                   new_entries, ops, opi, phase, submitted, page, attemptLog, queried,
                   storeAtCheck, committed, loaded, prevComplete, coverageFailed,
                   session_product_count>>
    /\ UNCHANGED outsideCheckpoint

mark_processed ==
    /\ pc = "init"
    /\ \E id \in Products : ApiCall(MarkProcessedOp(id))

mark_failed ==
    /\ pc = "init"
    /\ \E id \in Products : ApiCall(MarkFailedOp(id))

update_stats ==
    /\ pc = "init"
    /\ \E i \in 0..1, f \in 0..1, s \in 0..1 :
          /\ StatTotal(data) + i + f + s <= MaxStatTotal
          /\ ApiCall(UpdateStatsOp(i, f, s))

NextCheckpoint ==
    \/ mark_processed
    \/ mark_failed
    \/ update_stats

SpecCheckpoint == InitCheckpoint /\ [][NextCheckpoint]_vars

\* ===================================================================
\* batch_insert_price_history on its own: one call, on any list of entries,
\* with any batch_size and any outcome of each insert request.
\* ===================================================================
Min(a, b) == IF a < b THEN a ELSE b

\* entries[i:i + batch_size]
BatchSlice(es, start, size) == SubSeq(es, start + 1, Min(start + size, Len(es)))

\* inserted_count raised by one per batch instead of one per entry.
CountBatchAsOne(count, b) == count + 1

\* inserted_count += len(batch)
CountBatch(count, b) == count + Len(b)

InsertRequest(kind, items, ok) == [kind |-> kind, items |-> items, ok |-> ok]

InitBatch ==
    /\ BackfillStart(FileAbsent, 0, 0)
    /\ call = NoCall
    /\ ShardIdle
    /\ FetchIdle
    /\ PageIdle
    /\ SelectIdle
    /\ RateIdle
    /\ SessionIdle
    /\ DateIdle
    /\ \E n \in 0..MaxEntries : entries = [e \in 1..n |-> e]
    /\ batch_size \in 1..MaxBatchSize
    /\ batch_start = 0
    /\ fallback_pos = 0
    /\ inserted_count = 0
    /\ failed_count = 0
    /\ bpc = "loop"
    /\ sink = {}
    /\ insert_calls = <<>>

\* The insert of a batch succeeds.
BatchInsert ==
    /\ bpc = "loop"
    /\ batch_start < Len(entries)
    /\ LET b == BatchSlice(entries, batch_start, batch_size)
       IN /\ inserted_count' = CountBatch(inserted_count, b)
          /\ sink' = sink \cup SeqRange(b)
          /\ insert_calls' = Append(insert_calls, InsertRequest("batch", b, TRUE))
    /\ batch_start' = batch_start + batch_size
    /\ UNCHANGED <<entries, batch_size, fallback_pos, failed_count, bpc>>
    /\ UNCHANGED outsideBatch

\* The insert of a batch raises: the fallback loop over the batch begins.
BatchInsertFails ==
    /\ bpc = "loop"
    /\ batch_start < Len(entries)
    /\ insert_calls' =
          Append(insert_calls,
                 InsertRequest("batch", BatchSlice(entries, batch_start, batch_size), FALSE))
    /\ bpc' = "fallback"
    /\ fallback_pos' = 1
    /\ UNCHANGED <<entries, batch_size, batch_start, inserted_count, failed_count, sink>>
    /\ UNCHANGED outsideBatch

\* One pass of the fallback loop: the insert of one entry, which succeeds or raises.
EntryInsert ==
    /\ bpc = "fallback"
    /\ LET b == BatchSlice(entries, batch_start, batch_size)
           entry == b[fallback_pos]
       IN /\ \E ok \in BOOLEAN :
                /\ inserted_count' = IF ok THEN inserted_count + 1 ELSE inserted_count
                /\ failed_count' = IF ok THEN failed_count ELSE failed_count + 1
                /\ sink' = IF ok THEN sink \cup {entry} ELSE sink
                /\ insert_calls' = Append(insert_calls, InsertRequest("entry", <<entry>>, ok))
          /\ IF fallback_pos < Len(b)
             THEN /\ fallback_pos' = fallback_pos + 1
                  /\ UNCHANGED <<bpc, batch_start>>
             ELSE /\ fallback_pos' = 0
                  /\ bpc' = "loop"
                  /\ batch_start' = batch_start + batch_size
    /\ UNCHANGED <<entries, batch_size>>
    /\ UNCHANGED outsideBatch

\* The for loop is exhausted: return inserted_count, failed_count.
BatchReturn ==
    /\ bpc = "loop"
    /\ batch_start >= Len(entries)
    /\ bpc' = "returned"
    /\ UNCHANGED <<entries, batch_size, batch_start, fallback_pos, inserted_count,
                   failed_count, sink, insert_calls>>
    /\ UNCHANGED outsideBatch

NextBatch ==
    \/ BatchInsert
    \/ BatchInsertFails
    \/ EntryInsert
    \/ BatchReturn

SpecBatch == InitBatch /\ [][NextBatch]_vars

\* ===================================================================
\* The index range of a run: the flags of __main__ and the slice of
\* all_products in backfill_prices.  Products are named by their index in
\* all_products, from 0.
\* ===================================================================
\* Python's `x or dflt`: dflt when x is None, and also when x is 0.
OrElse(x, dflt) == IF x = NoIndex \/ x = 0 THEN dflt ELSE x

\* all_products[start:end] for a list of n products and start, end >= 0.
Slice(n, start, end) ==
    LET stop == Min(end, n)
    IN IF stop > start THEN [j \in 1..(stop - start) |-> start + j - 1] ELSE <<>>

\* products, after the index range and the reversal.
RunProducts(n, s, e, rev) ==
    LET ranged == IF s # NoIndex \/ e # NoIndex
                  THEN Slice(n, OrElse(s, 0), OrElse(e, n))
                  ELSE Slice(n, 0, n)
    IN IF rev THEN Reversed(ranged) ELSE ranged

midpoint == total_count \div 2

InitShard ==
    /\ BackfillStart(FileAbsent, 0, 0)
    /\ call = NoCall
    /\ BatchIdle
    /\ FetchIdle
    /\ PageIdle
    /\ SelectIdle
    /\ RateIdle
    /\ SessionIdle
    /\ DateIdle
    /\ total_count \in 0..MaxCatalog
    /\ forward_products = NotRun
    /\ reverse_products = NotRun
    /\ default_products = NotRun
    /\ range_args = <<NoIndex, NoIndex, FALSE>>
    /\ range_products = NotRun

\* python backfill_historical_prices.py --forward
RunForward ==
    /\ forward_products' = RunProducts(total_count, 0, midpoint, FALSE)
    /\ UNCHANGED <<total_count, reverse_products, default_products, range_args, range_products>>
    /\ UNCHANGED outsideShard

\* python backfill_historical_prices.py --reverse
RunReverse ==
    /\ reverse_products' = RunProducts(total_count, midpoint, total_count, TRUE)
    /\ UNCHANGED <<total_count, forward_products, default_products, range_args, range_products>>
    /\ UNCHANGED outsideShard

\* python backfill_historical_prices.py
RunDefault ==
    /\ default_products' = RunProducts(total_count, NoIndex, NoIndex, FALSE)
    /\ UNCHANGED <<total_count, forward_products, reverse_products, range_args, range_products>>
    /\ UNCHANGED outsideShard

\* backfill_prices(start_idx=s, end_idx=e, reverse=rev)
RunRange ==
    /\ \E s \in {NoIndex} \cup (0..total_count), e \in {NoIndex} \cup (0..total_count),
          rev \in BOOLEAN :
          /\ range_args' = <<s, e, rev>>
          /\ range_products' = RunProducts(total_count, s, e, rev)
    /\ UNCHANGED <<total_count, forward_products, reverse_products, default_products>>
    /\ UNCHANGED outsideShard

NextShard ==
    \/ RunForward
    \/ RunReverse
    \/ RunDefault
    \/ RunRange

SpecShard == InitShard /\ [][NextShard]_vars

\* ===================================================================
\* The retry loop of one product on its own, with the rate limiter and the
\* timeframe loop of extract_historical_prices.
\* ===================================================================
InitFetch ==
    /\ BackfillStart(FileAbsent, 0, 0)
    /\ call = NoCall
    /\ BatchIdle
    /\ ShardIdle
    /\ PageIdle
    /\ SelectIdle
    /\ RateIdle
    /\ SessionIdle
    /\ DateIdle
    /\ fetch_attempt = 1
    /\ timeframe_idx = 0
    /\ fpc = "wait"
    /\ consecutive_errors = 0
    /\ got = {}
    /\ attempt_events = <<>>
    /\ fetch_driver = 1
    /\ transport_failure = NoFailure
    /\ fetch_log = <<>>

\* rate_limiter.wait() at the top of an attempt.
RateLimiterWait ==
    /\ fpc = "wait"
    /\ attempt_events' = Append(attempt_events, "wait")
    /\ fpc' = "load"
    /\ UNCHANGED <<fetch_attempt, timeframe_idx, consecutive_errors, got, fetch_driver,
                   transport_failure, fetch_log>>
    /\ UNCHANGED outsideFetch

\* extract_historical_prices: driver.get and the wait for the canvas; when
\* they raise (TimeoutException, WebDriverException), the handlers of
\* extract_historical_prices catch the exception and the call returns [].
PageLoad ==
    /\ fpc = "load"
    /\ \E ok \in BOOLEAN :
          IF ok THEN /\ fpc' = "timeframe"
                     /\ timeframe_idx' = 1
                     /\ UNCHANGED transport_failure
                ELSE /\ fpc' = "result"
                     /\ timeframe_idx' = 0
                     /\ transport_failure' = [attempt |-> fetch_attempt, driver |-> fetch_driver]
    /\ UNCHANGED <<fetch_attempt, consecutive_errors, got, attempt_events, fetch_driver,
                   fetch_log>>
    /\ UNCHANGED outsideFetch

\* One pass of the timeframe loop: the button is not found, or it is clicked
\* and the table then gives entries, gives none, or reading it raises.
TimeframeExtract ==
    /\ fpc = "timeframe"
    /\ \E r \in {"no_button", "entries", "empty", "raised"} :
          /\ attempt_events' =
                IF r = "no_button" THEN attempt_events
                ELSE Append(attempt_events, TIMEFRAME_BUTTONS[timeframe_idx])
          /\ got' = IF r = "entries" THEN got \cup {timeframe_idx} ELSE got
    /\ IF timeframe_idx < Len(TIMEFRAME_BUTTONS)
       THEN /\ timeframe_idx' = timeframe_idx + 1
            /\ fpc' = fpc
       ELSE /\ timeframe_idx' = 0
            /\ fpc' = "result"
    /\ UNCHANGED <<fetch_attempt, consecutive_errors, fetch_driver, transport_failure,
                   fetch_log>>
    /\ UNCHANGED outsideFetch

\* The rest of the attempt: reset_errors and break on data; else record_error
\* and the backoff sleep before the next attempt, or the end of the loop.
\* The handlers of the retry loop (lines 737-757) are not entered: nothing
\* in its try block lets an exception out.
AttemptEnd ==
    /\ fpc = "result"
    /\ IF got # {}
       THEN /\ consecutive_errors' = 0
            /\ fpc' = "done"
            /\ fetch_log' = Append(fetch_log, "data")
            /\ UNCHANGED <<fetch_attempt, got, attempt_events>>
       ELSE IF MoreAttempts(fetch_attempt)
       THEN /\ consecutive_errors' = consecutive_errors + 1
            /\ fetch_attempt' = fetch_attempt + 1
            /\ fpc' = "wait"
            /\ attempt_events' = <<>>
            /\ got' = {}
            /\ UNCHANGED fetch_log
       ELSE /\ fpc' = "done"
            /\ fetch_log' = Append(fetch_log, "empty")
            /\ UNCHANGED <<fetch_attempt, consecutive_errors, got, attempt_events>>
    /\ UNCHANGED <<timeframe_idx, fetch_driver, transport_failure>>
    /\ UNCHANGED outsideFetch

\* The loop going on to the next product with a fresh RateLimiter.
NextItemResetsErrors ==
    /\ fpc = "done"
    /\ Len(fetch_log) < MaxFetchItems
    /\ fetch_attempt' = 1
    /\ fpc' = "wait"
    /\ got' = {}
    /\ attempt_events' = <<>>
    /\ transport_failure' = NoFailure
    /\ consecutive_errors' = 0
    /\ UNCHANGED <<timeframe_idx, fetch_driver, fetch_log>>
    /\ UNCHANGED outsideFetch

\* The loop goes on to the next product that is fetched: the retry loop
\* starts again, with the RateLimiter of the run as the last product left it.
NextItem ==
    /\ fpc = "done"
    /\ Len(fetch_log) < MaxFetchItems
    /\ fetch_attempt' = 1
    /\ fpc' = "wait"
    /\ got' = {}
    /\ attempt_events' = <<>>
    /\ transport_failure' = NoFailure
    /\ UNCHANGED <<timeframe_idx, consecutive_errors, fetch_driver, fetch_log>>
    /\ UNCHANGED outsideFetch

NextFetch ==
    \/ RateLimiterWait
    \/ PageLoad
    \/ TimeframeExtract
    \/ AttemptEnd
    \/ NextItem

SpecFetch == InitFetch /\ [][NextFetch]_vars

\* ===================================================================
\* The paginated queries on their own: fetch_products_paginated on the
\* products table and fetch_existing_price_dates on the rows of one product,
\* the store answering each range request from a fixed order of its rows.
\* ===================================================================
\* Instants of a day, in their order: 00:00:00, 12:00:00, 23:59:59 and an
\* instant after 23:59:59 of the same day (a row main.py inserts carries the
\* time of the insert, which the table sets).
Midnight == 0
Noon == 1
LastSecond == 2
LastInstant == LastSecond + 1

Timestamp(d, t) == [date |-> d, time |-> t]
Timestamps ==
    {Timestamp(d, t) : d \in {DayBefore, target_start_date, target_end_date, DayAfter},
                       t \in {Midnight, Noon, LastSecond, LastInstant}}

\* a <= b on timestamps.
NotAfter(a, b) == a.date < b.date \/ (a.date = b.date /\ a.time <= b.time)

\* .gte("recorded_at", f"{start_date} 00:00:00").lte("recorded_at", f"{end_date} 23:59:59")
InQueryWindow(r, start, end) ==
    /\ NotAfter(Timestamp(start, Midnight), r)
    /\ NotAfter(r, Timestamp(end, LastSecond))

\* .range(lo, hi): the rows lo..hi of the result, counted from 0.
StoreRange(rows, lo, hi) == SubSeq(rows, lo + 1, Min(hi + 1, Len(rows)))

\* recorded_at.split(' ')[0].split('T')[0]: the date part of the timestamp.
DateStr(r) == r.date

\* The rows the query of fetch_existing_price_dates selects.
MatchingRows(rows, start, end) ==
    LET Keep(r) == InQueryWindow(r, start, end) IN SelectSeq(rows, Keep)

SeqsUpTo(S, n) == UNION {[1..m -> S] : m \in 0..n}

InitPage ==
    /\ BackfillStart(FileAbsent, 0, 0)
    /\ call = NoCall
    /\ BatchIdle
    /\ ShardIdle
    /\ FetchIdle
    /\ SelectIdle
    /\ RateIdle
    /\ SessionIdle
    /\ DateIdle
    /\ page_query \in {"products", "dates"}
    /\ IF page_query = "products"
       THEN \E n \in 0..MaxTableRows : table_rows = [i \in 1..n |-> i]
       ELSE table_rows \in SeqsUpTo(Timestamps, MaxTableRows)
    /\ page_batch_size \in 1..MaxPageSize
    /\ page_offset = 0
    /\ page_requests = <<>>
    /\ all_products = <<>>
    /\ dates_found = {}
    /\ ppc = "loop"

\* What follows a page in both loops: return after an empty or a short
\* page, else the next offset.
AfterPage(got_rows) ==
    /\ page_requests' = Append(page_requests, page_offset)
    /\ IF got_rows = <<>> \/ Len(got_rows) < page_batch_size
       THEN /\ ppc' = "returned"
            /\ page_offset' = page_offset
       ELSE /\ ppc' = ppc
            /\ page_offset' = page_offset + page_batch_size
    /\ UNCHANGED <<page_query, table_rows, page_batch_size>>
    /\ UNCHANGED outsidePage

\* One pass of the while loop of fetch_products_paginated.
ProductsPage ==
    /\ ppc = "loop"
    /\ page_query = "products"
    /\ LET rows_got == StoreRange(table_rows, page_offset, page_offset + page_batch_size - 1)
       IN /\ all_products' = all_products \o rows_got
          /\ AfterPage(rows_got)
    /\ UNCHANGED dates_found

\* One pass of the while loop of fetch_existing_price_dates, called for the
\* range target_start_date..target_end_date.
DatesPage ==
    /\ ppc = "loop"
    /\ page_query = "dates"
    /\ LET rows_got == StoreRange(MatchingRows(table_rows, target_start_date, target_end_date),
                              page_offset, page_offset + page_batch_size - 1)
       IN /\ dates_found' = dates_found \cup {DateStr(rows_got[i]) : i \in 1..Len(rows_got)}
          /\ AfterPage(rows_got)
    /\ UNCHANGED all_products

NextPage ==
    \/ ProductsPage
    \/ DatesPage

SpecPage == InitPage /\ [][NextPage]_vars

\* ===================================================================
\* _select_api_result of src/main.py on its own: one call, on any list of
\* candidates and any requested variant and language.
\* ===================================================================
Languages == {"English", "Japanese"}
Variants == {"Holofoil", "Normal"}

\* The candidates of a response: result[i], each with its place in the list.
Candidate(i, l, v) == [pos |-> i, language |-> l, variant |-> v]
ApiResults ==
    UNION {{[i \in 1..n |-> Candidate(i, ls[i], vs[i])] :
               ls \in [1..n -> Languages \cup {NoValue}], vs \in [1..n -> Variants]} :
           n \in 0..MaxResults}

\* [r for r in filtered if r.get(field) == wanted], kept when wanted is
\* given and the list is not empty.
LanguageMatches(cands, wanted) ==
    LET Keep(r) == r.language = wanted
    IN IF wanted # NoValue /\ SelectSeq(cands, Keep) # <<>> THEN SelectSeq(cands, Keep) ELSE cands

VariantMatches(cands, wanted) ==
    LET Keep(r) == r.variant = wanted
    IN IF wanted # NoValue /\ SelectSeq(cands, Keep) # <<>> THEN SelectSeq(cands, Keep) ELSE cands

\* The function narrowing to the variant first and to the language second.
select_api_result_variant_first(results, variant, language) ==
    IF results = <<>> THEN NoCandidate
    ELSE LanguageMatches(VariantMatches(results, variant), language)[1]

select_api_result(results, variant, language) ==
    IF results = <<>> THEN NoCandidate
    ELSE VariantMatches(LanguageMatches(results, language), variant)[1]

InitSelect ==
    /\ BackfillStart(FileAbsent, 0, 0)
    /\ call = NoCall
    /\ BatchIdle
    /\ ShardIdle
    /\ FetchIdle
    /\ PageIdle
    /\ RateIdle
    /\ SessionIdle
    /\ DateIdle
    /\ api_results \in ApiResults
    /\ preferred_variant \in Variants \cup {NoValue}
    /\ preferred_language \in Languages \cup {NoValue}
    /\ selected = NotCalled
    /\ selected_before = NotCalled

\* A call, the first one or the same call made a second time.
SelectApiResult ==
    /\ selected_before = NotCalled
    /\ selected_before' = selected
    /\ selected' = select_api_result(api_results, preferred_variant, preferred_language)
    /\ UNCHANGED <<api_results, preferred_variant, preferred_language>>
    /\ UNCHANGED outsideSelect

NextSelect == SelectApiResult

SpecSelect == InitSelect /\ [][NextSelect]_vars

\* ===================================================================
\* RateLimiter on its own: any sequence of calls of wait, record_error and
\* reset_errors on one limiter, time passing between the calls.  Times are
\* whole seconds of one clock that does not go back.
\* ===================================================================
InitRate ==
    /\ BackfillStart(FileAbsent, 0, 0)
    /\ call = NoCall
    /\ BatchIdle
    /\ ShardIdle
    /\ FetchIdle
    /\ PageIdle
    /\ SelectIdle
    /\ RateIdle
    /\ SessionIdle
    /\ DateIdle

\* The delay of a wait that leaves the backoff out.
DelayNoBackoff(base_delay, errors) == base_delay

\* delay: base_delay, plus retry_backoff_base ** consecutive_errors after errors.
Delay(base_delay, errors) ==
    IF errors > 0 THEN base_delay + Pow(retry_backoff_base, errors) ELSE base_delay

\* The argument of time.sleep, 0 standing for no call of it.
SleepTime(delay, elapsed) == IF elapsed < delay THEN delay - elapsed ELSE 0

\* wait(): base_delay is drawn from min_delay..max_delay, and time.sleep
\* returns when the time asked for has passed, or a second later.
RateWait ==
    /\ \E base_delay \in min_delay..max_delay, late \in 0..1 :
          LET elapsed == now - last_request_time
              delay == Delay(base_delay, consecutive_errors)
              slept == SleepTime(delay, elapsed)
              woke == IF slept > 0 THEN now + slept + late ELSE now
          IN /\ woke <= ClockStart + MaxClock
             /\ now' = woke
             /\ last_request_time' = woke
             /\ last_wait' = [called_at |-> now, prev_return |-> last_request_time,
                              errors |-> consecutive_errors, delay |-> delay,
                              slept |-> slept, returned_at |-> woke,
                              errors_after |-> consecutive_errors]
    /\ UNCHANGED consecutive_errors
    /\ UNCHANGED outsideRate

record_error ==
    /\ consecutive_errors < MaxRateErrors
    /\ consecutive_errors' = consecutive_errors + 1
    /\ UNCHANGED <<now, last_request_time, last_wait>>
    /\ UNCHANGED outsideRate

reset_errors ==
    /\ consecutive_errors > 0
    /\ consecutive_errors' = 0
    /\ UNCHANGED <<now, last_request_time, last_wait>>
    /\ UNCHANGED outsideRate

\* A second passes between two calls.
TimePasses ==
    /\ now < ClockStart + MaxClock
    /\ now' = now + 1
    /\ UNCHANGED <<last_request_time, last_wait, consecutive_errors>>
    /\ UNCHANGED outsideRate

NextRate ==
    \/ RateWait
    \/ record_error
    \/ reset_errors
    \/ TimePasses

SpecRate == InitRate /\ [][NextRate]_vars

\* ===================================================================
\* The browser session over the products of the loop, on its own: each
\* product is taken up at the loop head and is then skipped without a fetch
\* or fetched with the driver of that moment.
\* ===================================================================
InitSession ==
    /\ BackfillStart(FileAbsent, 0, 0)
    /\ AuxIdle

\* The loop head of one product (the count, and the recycling when it is
\* due), and the rest of the loop body with the driver it leaves.
SessionLoopItem ==
    /\ Len(session_log) < MaxLoopItems
    /\ LET due == RecycleDue(session_product_count + 1)
           driver == IF due THEN driver_no + 1 ELSE driver_no
       IN /\ driver_no' = driver
          /\ session_product_count' = IF due THEN 0 ELSE session_product_count + 1
          /\ \E fetched \in BOOLEAN :
                session_log' = Append(session_log, [driver |-> driver, fetched |-> fetched])
    /\ UNCHANGED outsideSession

NextSession == SessionLoopItem

SpecSession == InitSession /\ [][NextSession]_vars

\* ===================================================================
\* parse_short_date on its own: one call, on any current date and any
\* argument.  The argument is given by what split("/") and int() make of
\* it: the number of parts, whether both are integers, and the two integers.
\* ===================================================================
IsLeap(y) == (y % 4 = 0 /\ y % 100 # 0) \/ y % 400 = 0

DaysInMonth(y, m) ==
    IF m = 2 THEN (IF IsLeap(y) THEN 29 ELSE 28)
    ELSE IF m \in {4, 6, 9, 11} THEN 30 ELSE 31

\* datetime(y, m, d) does not raise ValueError.
IsDate(y, m, d) == m \in 1..12 /\ d >= 1 /\ d <= DaysInMonth(y, m)

RECURSIVE DaysBeforeMonth(_, _)
DaysBeforeMonth(y, m) ==
    IF m <= 1 THEN 0 ELSE DaysBeforeMonth(y, m - 1) + DaysInMonth(y, m - 1)

\* The number of the day, as date.toordinal() counts.
Ordinal(y, m, d) ==
    365 * (y - 1) + ((y - 1) \div 4) - ((y - 1) \div 100) + ((y - 1) \div 400)
        + DaysBeforeMonth(y, m) + d

\* candidate_date > now + timedelta(days=7): candidate_date is a midnight
\* and now is at or after the midnight of today.
TooFarAhead(y, m, d, t) == Ordinal(y, m, d) > Ordinal(t.year, t.month, t.day) + 7

parse_short_date(str, t) ==
    IF str.parts # 2 \/ ~str.numeric THEN NoDate
    ELSE IF ~IsDate(t.year, str.month, str.day) THEN NoDate
    ELSE IF ~TooFarAhead(t.year, str.month, str.day, t) THEN Date(t.year, str.month, str.day)
    ELSE IF ~IsDate(t.year - 1, str.month, str.day) THEN NoDate
    ELSE Date(t.year - 1, str.month, str.day)

\* The years the current date is taken from: a leap year and the year after it.
CurrentYears == {2024, 2025}

InitDate ==
    /\ BackfillStart(FileAbsent, 0, 0)
    /\ call = NoCall
    /\ BatchIdle
    /\ ShardIdle
    /\ FetchIdle
    /\ PageIdle
    /\ SelectIdle
    /\ RateIdle
    /\ SessionIdle
    /\ \E y \in CurrentYears, m \in 1..12 :
          \E d \in 1..DaysInMonth(y, m) : today = Date(y, m, d)
    /\ \/ \E m \in 0..13, d \in 0..32 : date_str = ShortDate(2, TRUE, m, d)
       \/ date_str \in {ShortDate(1, TRUE, 0, 0), ShortDate(3, TRUE, 0, 0),
                        ShortDate(2, FALSE, 0, 0)}
    /\ parsed = NotParsed

ParseShortDate ==
    /\ parsed = NotParsed
    /\ parsed' = parse_short_date(date_str, today)
    /\ UNCHANGED <<date_str, today>>
    /\ UNCHANGED outsideDate

NextDate == ParseShortDate

SpecDate == InitDate /\ [][NextDate]_vars

\* ===================================================================
\* Properties
\* ===================================================================
Processed(d) == SeqRange(d.processed_products)
Failed(d) == SeqRange(d.failed_products)
Later(a, b) == IF a > b THEN a ELSE b
InItem == idx \in 1..Len(products_to_process) /\ pc \in {"coverage", "attempt", "insert", "ckpt"}
Decided == pc = "ckpt" /\ opi = 1 /\ phase = "mutate"
AllEmpty(log) == \A i \in 1..Len(log) : log[i] = "empty"

\* ------------------------------------------------------------------ C1
TimeframesWith(tables, d) == {k \in 1..Len(TIMEFRAME_BUTTONS) : d \in SeqDates(tables[k])}
Finest(tables, d) == CHOOSE k \in TimeframesWith(tables, d) : \A m \in TimeframesWith(tables, d) : k <= m
PricesOn(s, d) == {s[i].price : i \in {j \in 1..Len(s) : s[j].date = d}}

\* C1: for every date that two or more timeframes of the fetched page hold,
\* the entry of the returned series carries the price of the finest
\* (shortest) timeframe that holds the date.
C1_MergePrecedence ==
    page.kind = "page" =>
        \A d \in Dates :
            Cardinality(TimeframesWith(page.tables, d)) >= 2 =>
                /\ PricesOn(historical_data, d) # {}
                /\ PricesOn(historical_data, d) \subseteq PricesOn(page.tables[Finest(page.tables, d)], d)

\* ------------------------------------------------------------------ C2
\* C2 as stated: over the runs that share the checkpoint file no id is ever
\* in both processed_products and failed_products (coverage queries all
\* having answered).
C2_NeverInBothLists == ~coverageFailed => Processed(data) \cap Failed(data) = {}

\* C2 amended: Processed is terminal and Failed is not.  A product the
\* record holds as processed is never taken up by the loop, no id is marked
\* failed while the record holds it as processed, and every id a run loaded
\* as processed stays processed and is not added to failed_products.
C2_ProcessedIsTerminal ==
    /\ (idx >= 1 /\ pc \in {"coverage", "attempt", "insert"}) => product_id \notin Processed(data)
    /\ pc = "ckpt" =>
          \A i \in opi..Len(ops) : ops[i].op = "mark_failed" => ops[i].id \notin Processed(data)
    /\ pc # "init" =>
          \A p \in Processed(loaded) :
              /\ p \in Processed(data)
              /\ p \in Failed(data) => p \in Failed(loaded)

\* A second run has added to processed_products an id it loaded as failed,
\* next to an id it loaded as processed.
C2_FailedBecameProcessed ==
    /\ run = 2
    /\ \E p \in Failed(loaded) : p \notin Processed(loaded) /\ p \in Processed(data)
    /\ \E q \in Processed(loaded) : q \notin Failed(data)

\* ------------------------------------------------------------------ C3
\* C3 as stated: a run that follows a complete run on the same catalog and
\* checkpoint file submits nothing to the persistence sink (coverage queries
\* all having answered).
C3_SecondRunSubmitsNothing ==
    (run >= 2 /\ prevComplete /\ ~coverageFailed) => submitted = {}

\* C3 amended: such a run submits nothing for a product the checkpoint
\* holds as processed; what it submits belongs to products that are not in
\* processed_products, which (no write having failed) are the products the
\* earlier run left as failed: they are fetched again.
C3_ResubmitsOnlyFailed ==
    (run >= 2 /\ prevComplete) =>
        \A e \in submitted :
            /\ e.product_id \notin Processed(loaded)
            /\ writeFailures = 0 => e.product_id \in Failed(loaded)

\* The run after a complete run has submitted entries of a failed product
\* while the checkpoint held another product as processed.
C3_FailedProductResubmitted ==
    /\ run = 2
    /\ prevComplete
    /\ submitted # {}
    /\ Processed(loaded) # {}

\* ------------------------------------------------------------------ C4
Covers(a, b) ==
    /\ Processed(b) \subseteq Processed(a)
    /\ Failed(b) \subseteq Failed(a)
    /\ b.stats.total_inserted <= a.stats.total_inserted
    /\ b.stats.total_failed <= a.stats.total_failed
    /\ b.stats.total_skipped <= a.stats.total_skipped

\* C4: when the process has stopped (no write having failed), loading the
\* checkpoint file yields every id and every stats update of the checkpoint
\* calls that had returned before the stop.
C4_CrashKeepsCommitted ==
    (pc = "init" /\ writeFailures = 0) => Covers(Load(file), committed)

\* ------------------------------------------------------------------ C5
\* C5: no entry is about to be submitted for a date on which the store
\* already holds a row of the product.
C5_NoDuplicateSubmitted ==
    pc = "insert" =>
        \A i \in 1..Len(new_entries) : <<product_id, new_entries[i].date>> \notin store

\* ------------------------------------------------------------------ C6
\* C6: no entry with usd_price <= 0 is submitted to the persistence sink.
C6_NoNonPositiveSubmitted == \A e \in submitted : e.usd_price > 0

\* ------------------------------------------------------------------ C7
\* C7: for a product released after the end of the window no coverage query
\* and no fetch attempt is made, and it is marked processed, not failed.
C7_ReleasedAfterWindowSkipped ==
    (InItem /\ release[product_id] # NoRelease /\ release[product_id] > target_end_date) =>
        /\ ~queried
        /\ attemptLog = <<>>
        /\ pc \notin {"attempt", "insert"}
        /\ pc = "ckpt" => \A i \in 1..Len(ops) : ops[i].op # "mark_failed"

\* ------------------------------------------------------------------ C8
\* C8: for a product with a release date, product_start_date is the later
\* of the window start and the release date, and no entry submitted for the
\* product is dated before it.
C8_ReleaseDateFloor ==
    /\ (idx >= 1 /\ pc \in {"coverage", "attempt", "insert"} /\ release[product_id] # NoRelease) =>
          product_start_date = Later(target_start_date, release[product_id])
    /\ \A e \in submitted :
          release[e.product_id] # NoRelease =>
              e.recorded_at >= Later(target_start_date, release[e.product_id])

\* Entries were submitted for a product released inside the window whose
\* fetched series also held a date before the release.
C8_SubmittedAfterRelease ==
    /\ Decided
    /\ release[product_id] # NoRelease
    /\ release[product_id] > target_start_date
    /\ \E i \in 1..Len(historical_data) : historical_data[i].date < release[product_id]
    /\ \E e \in submitted : e.product_id = product_id

\* ------------------------------------------------------------------ C9
\* C9: when the store holds at least as many dates of the product in
\* [product_start_date, target_end_date] as the range has days, no fetch is
\* attempted and the product is skipped; with fewer dates the fetch is
\* attempted.  (Stated for a range of at least one day.)
C9_CompleteCoverageSkipsFetch ==
    (InItem /\ queried /\ product_start_date <= target_end_date) =>
        IF Cardinality(storeAtCheck) >= (target_end_date - product_start_date) + 1
        THEN /\ attemptLog = <<>>
             /\ pc = "ckpt"
             /\ ops[1].op = "mark_processed"
             /\ ops[2].skipped = 1
        ELSE pc \in {"attempt", "insert"} \/ attemptLog # <<>>

\* ------------------------------------------------------------------ C10
\* C10: the attempts of a product stop at the first one that returns data
\* and are never more than max_retries; the product is marked failed, and
\* total_failed raised by one, exactly when max_retries attempts were made
\* and all of them returned no data.
C10_BoundedRetry ==
    /\ Len(attemptLog) <= max_retries
    /\ \A i \in 1..(Len(attemptLog) - 1) : attemptLog[i] = "empty"
    /\ pc = "attempt" => (AllEmpty(attemptLog) /\ attempt = Len(attemptLog) + 1)
    /\ pc = "insert" => (attemptLog[Len(attemptLog)] = "data" /\ attempt = Len(attemptLog))
    /\ Decided =>
          /\ (ops[1].op = "mark_failed") <=> (Len(attemptLog) = max_retries /\ AllEmpty(attemptLog))
          /\ (ops[1].op = "mark_failed") =>
                (ops[1].id = product_id /\ Len(ops) = 2 /\ ops[2].op = "update_stats" /\ ops[2].failed = 1)
          /\ \A i \in 1..Len(ops) : ops[i].failed = 1 /\ ops[i].inserted = 0 /\ ops[i].skipped = 0
                                       /\ ops[i].op = "update_stats" /\ new_entries = <<>>
                                       => ops[1].op = "mark_failed"

\* A product is being marked failed after max_retries attempts without data.
C10_FailedAfterAllAttempts ==
    /\ Decided
    /\ ops[1].op = "mark_failed"
    /\ Len(attemptLog) = max_retries

\* ------------------------------------------------------------------ C11
\* C11: no exception raised while a product is being processed ends the run
\* (the checkpoint file being usable and every coverage query having answered).
C11_ExceptionContained ==
    (file.state # "unreachable" /\ writeFailures = 0 /\ ~coverageFailed) => pc # "raised"

\* ------------------------------------------------------------------ C12
Handled ==
    IF bpc = "fallback" THEN batch_start + fallback_pos - 1 ELSE Min(batch_start, Len(entries))
Requests(kind, ok) ==
    {j \in 1..Len(insert_calls) : insert_calls[j].kind = kind /\ insert_calls[j].ok = ok}
BatchStarts == {s \in 0..(Len(entries) - 1) : s % batch_size = 0}

\* C12: at every point of the call inserted_count + failed_count is the
\* number of entries dealt with so far, failed_count counts the entries whose
\* individual insert failed and inserted_count the entries the table took;
\* when the call returns the two add up to len(entries), every batch of the
\* list has been requested (also those after a failed one), and each failed
\* batch request is followed by one individual request per entry of it, and
\* no individual request is made otherwise.
C12_BatchInsertAccounting ==
    /\ inserted_count + failed_count = Handled
    /\ failed_count = Cardinality(Requests("entry", FALSE))
    /\ inserted_count = Cardinality(sink)
    /\ sink = UNION {SeqRange(insert_calls[j].items) :
                        j \in Requests("batch", TRUE) \cup Requests("entry", TRUE)}
    /\ bpc = "returned" =>
          /\ inserted_count + failed_count = Len(entries)
          /\ \A s \in BatchStarts :
                \E j \in 1..Len(insert_calls) :
                    /\ insert_calls[j].kind = "batch"
                    /\ insert_calls[j].items = BatchSlice(entries, s, batch_size)
          /\ \A j \in Requests("batch", FALSE) :
                \A m \in 1..Len(insert_calls[j].items) :
                    /\ j + m <= Len(insert_calls)
                    /\ insert_calls[j + m].kind = "entry"
                    /\ insert_calls[j + m].items = <<insert_calls[j].items[m]>>
          /\ \A j \in Requests("entry", TRUE) \cup Requests("entry", FALSE) :
                \E b \in Requests("batch", FALSE) :
                    /\ b < j
                    /\ j - b <= Len(insert_calls[b].items)

\* The call has returned after a batch of two that failed, with one of its
\* entries inserted and the other not, and a later batch that went through.
C12_LaterBatchAfterFailure ==
    /\ bpc = "returned"
    /\ failed_count = 1
    /\ \E b \in Requests("batch", FALSE) :
          /\ Len(insert_calls[b].items) = 2
          /\ insert_calls[b + 1].ok # insert_calls[b + 2].ok
          /\ \E c \in Requests("batch", TRUE) : c > b

\* ------------------------------------------------------------------ C13
\* C13: for a catalog of any size, the products of a --forward run and those
\* of a --reverse run are disjoint and together are the whole catalog, each
\* run taking exactly the indices start_idx..end_idx-1 that __main__ gave it.
C13_ForwardReverseSharding ==
    (forward_products # NotRun /\ reverse_products # NotRun) =>
        /\ SeqRange(forward_products) \cap SeqRange(reverse_products) = {}
        /\ SeqRange(forward_products) \cup SeqRange(reverse_products) = 0..(total_count - 1)
        /\ SeqRange(forward_products) = 0..(midpoint - 1)
        /\ SeqRange(reverse_products) = midpoint..(total_count - 1)

\* ------------------------------------------------------------------ C14
\* C14: a product whose id is in processed_products when a run starts is not
\* among the products the run takes up, so that no coverage query, fetch or
\* insert is made for it, no checkpoint call names it, and its record stays
\* as loaded: in processed_products, and in failed_products exactly if it
\* was there.
C14_ProcessedAlwaysSkipped ==
    \A p \in Processed(loaded) :
        /\ p \notin SeqRange(products_to_process)
        /\ (InItem /\ (queried \/ attemptLog # <<>> \/ pc = "insert")) => product_id # p
        /\ \A e \in submitted : e.product_id # p
        /\ \A i \in 1..Len(ops) : ops[i].id # p
        /\ p \in Processed(data)
        /\ p \in Failed(data) <=> p \in Failed(loaded)

\* A run has ended that loaded as processed a product for which the store
\* lacks a day of its range.
C14_SkippedThoughIncomplete ==
    /\ run = 2
    /\ pc = "done"
    /\ \E p \in Processed(loaded) :
          \E d \in ProductStartDate(release[p])..target_end_date : <<p, d>> \notin store

\* ------------------------------------------------------------------ C15
\* C15: a call of update_stats, or of mark_processed or mark_failed with an
\* id its list does not hold yet, writes the file; and when that write did
\* not fail, the file holds exactly the in-memory record when the call returns.
C15_SynchronousPersistence ==
    /\ (call # NoCall /\ (call.op.op = "update_stats" \/ ~call.recorded)) => call.write # "none"
    /\ call.write = "ok" => (file.state = "valid" /\ file.content = data)

\* A mark_failed of a new id has returned, its write done, with both lists
\* and the statistics holding something.
C15_MarkFailedPersisted ==
    /\ call.op.op = "mark_failed"
    /\ call.write = "ok"
    /\ Processed(data) # {}
    /\ StatTotal(data) > 0
    /\ writeFailures > 0

\* ------------------------------------------------------------------ C16
NoIdTwice(s) == \A i, j \in 1..Len(s) : s[i] = s[j] => i = j

\* C16: neither list ever holds an id twice, and a call of mark_processed
\* (mark_failed) with an id that processed_products (failed_products) holds
\* leaves the record as it is and writes nothing.
C16_IdempotentMarking ==
    /\ [](NoIdTwice(data.processed_products) /\ NoIdTwice(data.failed_products))
    /\ [][call'.recorded => (data' = data /\ file' = file /\ call'.write = "none")]_vars

\* Each of the two mark calls has been made with an id its list held.
C16_RemarkedProcessed ==
    /\ call.op.op = "mark_processed"
    /\ call.recorded
    /\ Len(data.failed_products) > 0

\* ------------------------------------------------------------------ C17
\* C17: when the write inside save fails, the call returns normally (the
\* next checkpoint call of the product, or the next product, follows in the
\* same run) and the in-memory record holds the call's mutation.
C17_WriteFailureNotFatal ==
    [][writeFailures' > writeFailures =>
          /\ data' = data
          /\ data = Applied(committed, ops[opi])
          /\ Mutates(committed, ops[opi])
          /\ opi' = opi + 1
          /\ phase' = "mutate"
          /\ pc' = (IF opi < Len(ops) THEN "ckpt" ELSE "loop")
          /\ run' = run]_vars

\* After a failed write the run has gone on to fetch for the next product,
\* with a record in memory that the file does not hold.
C17_NextItemAfterFailedWrite ==
    /\ writeFailures > 0
    /\ pc = "attempt"
    /\ idx = 2
    /\ Processed(data) \cup Failed(data) # {}
    /\ Load(file) # data

\* ------------------------------------------------------------------ C18
\* C18: when the checkpoint path can be neither read nor written, the run
\* aborts before any product is fetched or any entry inserted.
C18_UnreachableCheckpointAborts ==
    file.state = "unreachable" =>
        /\ pc \notin {"attempt", "insert"}
        /\ attemptLog = <<>>
        /\ submitted = {}

\* ------------------------------------------------------------------ C19
\* C19: when backfill_prices has returned after a KeyboardInterrupt, the
\* checkpoint file holds the in-memory record (no write having failed).
C19_FlushOnInterrupt ==
    (pc = "interrupted" /\ file.state # "unreachable" /\ writeFailures = 0) => Load(file) = data

\* ------------------------------------------------------------------ C20
\* C20: in every attempt each click on a timeframe button (the fetch of a
\* range) comes after a rate_limiter.wait() that has returned since the
\* click before it.
C20_WaitBeforeEachRangeFetch ==
    \A j \in 1..Len(attempt_events) :
        attempt_events[j] \in SeqRange(TIMEFRAME_BUTTONS) =>
            \E w \in 1..(j - 1) :
                /\ attempt_events[w] = "wait"
                /\ \A m \in (w + 1)..(j - 1) : attempt_events[m] = "wait"

\* ------------------------------------------------------------------ C21
PageOf(rows, j) ==
    StoreRange(rows, (j - 1) * page_batch_size, j * page_batch_size - 1)
QueriedRows ==
    IF page_query = "products" THEN table_rows
    ELSE MatchingRows(table_rows, target_start_date, target_end_date)

\* The range requests are made at the offsets 0, b, 2b, ..., every page but
\* the last one is full, and the loop has returned exactly when the last
\* page was empty or shorter than batch_size.
PagesInOrder ==
    /\ \A j \in 1..Len(page_requests) : page_requests[j] = (j - 1) * page_batch_size
    /\ \A j \in 1..(Len(page_requests) - 1) : Len(PageOf(QueriedRows, j)) = page_batch_size
    /\ ppc = "returned" <=>
          /\ page_requests # <<>>
          /\ Len(PageOf(QueriedRows, Len(page_requests))) < page_batch_size

\* C21: when a paginated query returns, fetch_products_paginated has every
\* row of the table exactly once and in the store's order,
\* fetch_existing_price_dates has exactly the calendar dates of the rows the
\* store holds for the product from start to end, and the pages were
\* requested at the offsets 0, b, 2b, ... up to the first empty or short page.
C21_PaginationComplete ==
    /\ PagesInOrder
    /\ (ppc = "returned" /\ page_query = "products") => all_products = table_rows
    /\ (ppc = "returned" /\ page_query = "dates") =>
          dates_found = {r.date : r \in {x \in SeqRange(table_rows) :
                                            target_start_date <= x.date /\ x.date <= target_end_date}}

\* ------------------------------------------------------------------ C22
WithLanguage == {i \in 1..Len(api_results) : api_results[i].language = preferred_language}
LanguageSet ==
    IF preferred_language # NoValue /\ WithLanguage # {} THEN WithLanguage
    ELSE 1..Len(api_results)
WithVariant == {i \in LanguageSet : api_results[i].variant = preferred_variant}
FinalSet ==
    IF preferred_variant # NoValue /\ WithVariant # {} THEN WithVariant ELSE LanguageSet

\* C22: the call returns None exactly when the list of candidates is empty;
\* otherwise it returns the candidate that comes first in the list among
\* those left after narrowing to the requested language (all being kept when
\* none matches or none is requested) and then, within these, to the
\* requested variant (likewise).  So the result has the requested language
\* whenever a candidate has it, and a repeated call returns the same result.
C22_VariantDisambiguation ==
    /\ selected # NotCalled =>
          /\ selected = NoCandidate <=> api_results = <<>>
          /\ selected # NoCandidate =>
                /\ selected.pos \in FinalSet
                /\ \A i \in FinalSet : selected.pos <= i
                /\ selected = api_results[selected.pos]
                /\ (preferred_language # NoValue /\ WithLanguage # {}) =>
                      selected.language = preferred_language
    /\ selected_before # NotCalled => selected = selected_before

\* A call has returned the first candidate of the requested language, which
\* has another variant than the requested one, while an earlier candidate of
\* another language has the requested variant.
C22_LanguageBeforeVariant ==
    /\ selected_before \notin {NotCalled, NoCandidate}
    /\ preferred_language # NoValue
    /\ preferred_variant # NoValue
    /\ selected.language = preferred_language
    /\ selected.variant # preferred_variant
    /\ \E i \in 1..(selected.pos - 1) : api_results[i].variant = preferred_variant

\* ------------------------------------------------------------------ C23
\* C23: a call of wait() that returns after an earlier one returns at least
\* min_delay seconds after it, and at least min_delay +
\* retry_backoff_base^consecutive_errors after it when the error count is
\* positive; what it sleeps is max(0, delay - elapsed), never less than 0;
\* and the error count is after the call what it was before.
C23_MinimumSpacing ==
    /\ last_wait.prev_return > 0 =>
          /\ last_wait.returned_at - last_wait.prev_return >= min_delay
          /\ last_wait.errors > 0 =>
                last_wait.returned_at - last_wait.prev_return
                    >= min_delay + Pow(retry_backoff_base, last_wait.errors)
    /\ last_wait.slept >= 0
    /\ last_wait.slept = Later(0, last_wait.delay - (last_wait.called_at - last_wait.prev_return))
    /\ last_wait.errors_after = last_wait.errors
    /\ last_request_time = last_wait.returned_at

\* A wait made after two errors, less than min_delay after the return of the
\* wait before it, has slept and returned.
C23_WaitAfterErrors ==
    /\ last_wait.prev_return > 0
    /\ last_wait.errors = 2
    /\ last_wait.called_at - last_wait.prev_return < min_delay
    /\ last_wait.slept > 0
    /\ now = last_wait.returned_at

\* ------------------------------------------------------------------ C24
SubmittedFor(p) == {e \in submitted : e.product_id = p}

\* C24: the window ends on the day before the current UTC day; every entry
\* submitted for a product is dated from the later of the window start and
\* the product's release date to the window end; the entries about to be
\* submitted, and those just submitted, are on dates the coverage set obtained
\* for the product does not hold; and no two entries submitted for a product
\* in one run are on the same date.
C24_WindowFilter ==
    /\ target_end_date = utc_now - 1
    /\ \A e \in submitted :
          /\ target_start_date <= e.recorded_at
          /\ release[e.product_id] # NoRelease => release[e.product_id] <= e.recorded_at
          /\ e.recorded_at <= target_end_date
    /\ \A e1, e2 \in submitted :
          (e1.product_id = e2.product_id /\ e1.recorded_at = e2.recorded_at) => e1 = e2
    /\ pc = "insert" =>
          /\ \A i \in 1..Len(new_entries) : new_entries[i].date \notin existing_dates
          /\ \A i, j \in 1..Len(new_entries) :
                new_entries[i].date = new_entries[j].date => i = j
    /\ (Decided /\ new_entries # <<>>) =>
          /\ SubmittedFor(product_id) # {}
          /\ \A e \in SubmittedFor(product_id) : e.recorded_at \notin existing_dates

\* Entries of a product have been submitted whose fetched series also held a
\* date of the coverage set, on a page that has a date in two timeframes.
C24_ExistingDateLeftOut ==
    /\ Decided
    /\ SubmittedFor(product_id) # {}
    /\ \E i \in 1..Len(historical_data) : historical_data[i].date \in existing_dates
    /\ \E d \in Dates : Cardinality(TimeframesWith(page.tables, d)) >= 2

\* ------------------------------------------------------------------ C25
ServedBy(n) == {i \in 1..Len(session_log) : session_log[i].driver = n}

\* C25: no driver is the driver of more than session_recycle_after products
\* of the loop, and the products of a driver follow one another; a new
\* driver is made at the head of every product whose number in the loop is a
\* multiple of session_recycle_after, before that product is fetched, and at
\* no other; session_product_count is then 0 and is otherwise the number of
\* products taken up since, whether they were fetched or skipped.
C25_SessionRecycling ==
    /\ \A n \in 1..driver_no : Cardinality(ServedBy(n)) <= session_recycle_after
    /\ \A i \in 1..Len(session_log) :
          /\ session_log[i].driver = 1 + (i \div session_recycle_after)
          /\ \A j \in 1..i : session_log[j].driver <= session_log[i].driver
    /\ driver_no = 1 + (Len(session_log) \div session_recycle_after)
    /\ session_product_count = Len(session_log) % session_recycle_after
    /\ session_product_count < session_recycle_after

\* A driver made by the recycling has been the driver of
\* session_recycle_after products, one of them skipped without a fetch, and
\* the next product has got a new driver.
C25_FullSessionThenRecycled ==
    /\ driver_no = 3
    /\ Cardinality(ServedBy(2)) = session_recycle_after
    /\ \E i \in ServedBy(2) : ~session_log[i].fetched
    /\ session_product_count = 0

\* ------------------------------------------------------------------ C26
\* C26: an attempt that follows an attempt of the same product whose page
\* load failed with a timeout or a WebDriver error loads the page with a new
\* driver, made after that failure.
C26_RecycleOnTransportFailure ==
    (fpc = "load" /\ transport_failure.attempt = fetch_attempt - 1 /\ fetch_attempt > 1) =>
        fetch_driver > transport_failure.driver

\* ------------------------------------------------------------------ C27
WellFormed == date_str.parts = 2 /\ date_str.numeric
\* A month and a day that some year has.
IsMonthDay(m, d) == m \in 1..12 /\ d >= 1 /\ d <= (IF m = 2 THEN 29 ELSE DaysInMonth(1, m))
DaysAhead(m, d) == Ordinal(today.year, m, d) - Ordinal(today.year, today.month, today.day)

\* C27 as stated: "M/D" is returned as that day of the current year when M is
\* the current month or an earlier one, and as that day of the previous year
\* when M is a later month; an argument that is not two integers separated
\* by "/" or not a calendar day returns None.
C27_YearByMonth ==
    parsed # NotParsed =>
        /\ (WellFormed /\ date_str.month <= today.month
                /\ IsDate(today.year, date_str.month, date_str.day)) =>
              parsed = Date(today.year, date_str.month, date_str.day)
        /\ (WellFormed /\ date_str.month > today.month
                /\ IsDate(today.year - 1, date_str.month, date_str.day)) =>
              parsed = Date(today.year - 1, date_str.month, date_str.day)
        /\ (~WellFormed \/ ~IsMonthDay(date_str.month, date_str.day)) => parsed = NoDate

\* What the call returns in place of that (C27): "M/D" as that day of the
\* current year unless the day is more than 7 days after the current date,
\* and then as that day of the previous year; None when the current year
\* does not have the day (2/29 outside leap years, whatever the previous
\* year has), or when the previous year is the one to return and does not
\* have it.
ParseShortDateReturns ==
    parsed # NotParsed =>
        /\ (WellFormed /\ IsDate(today.year, date_str.month, date_str.day)) =>
              IF DaysAhead(date_str.month, date_str.day) <= 7
              THEN parsed = Date(today.year, date_str.month, date_str.day)
              ELSE IF IsDate(today.year - 1, date_str.month, date_str.day)
              THEN parsed = Date(today.year - 1, date_str.month, date_str.day)
              ELSE parsed = NoDate
        /\ (~WellFormed \/ ~IsDate(today.year, date_str.month, date_str.day)) => parsed = NoDate

\* ------------------------------------------------------------------ C28
RECURSIVE EmptyStreak(_)
\* The number of products at the end of the log that ended without data.
EmptyStreak(log) ==
    IF log = <<>> \/ log[Len(log)] = "data" THEN 0
    ELSE 1 + EmptyStreak(SubSeq(log, 1, Len(log) - 1))

\* C28: consecutive_errors is lowered (to 0) only by an attempt that returned
\* data and is left as it is when the loop goes on to the next product; each
\* product whose attempts all came back empty raises it by max_retries - 1,
\* so that after n such products in a row it is n * (max_retries - 1), plus
\* one per empty attempt of the product under way, and the backoff of the
\* next wait is retry_backoff_base to that power, with no cap.
C28_ErrorStreakAcrossItems ==
    /\ [](/\ fpc = "done" =>
                consecutive_errors = EmptyStreak(fetch_log) * (max_retries - 1)
          /\ fpc \in {"wait", "load", "timeframe", "result"} =>
                consecutive_errors = EmptyStreak(fetch_log) * (max_retries - 1)
                                        + (fetch_attempt - 1))
    /\ [][consecutive_errors' < consecutive_errors =>
            (fpc = "result" /\ got # {} /\ consecutive_errors' = 0)]_vars
    /\ [][fetch_attempt' < fetch_attempt => consecutive_errors' = consecutive_errors]_vars

\* After two products in a row that failed all their attempts the third is
\* about to wait with an error count of 2 * (max_retries - 1).
C28_TwoFailedItemsInARow ==
    /\ Len(fetch_log) = 2
    /\ EmptyStreak(fetch_log) = 2
    /\ fpc = "wait"
    /\ fetch_attempt = 1
    /\ consecutive_errors = 2 * (max_retries - 1)

\* ------------------------------------------------------------------ C29
AfterInsert == pc = "ckpt" /\ ops # <<>> /\ ops[1].op = "update_stats"

\* C29: when batch_insert_price_history has returned for a product, with
\* every, some or none of its inserts failed, the checkpoint calls that
\* follow are update_stats with the number of entries the table took and the
\* number that failed (the two adding up to the entries submitted) and then
\* mark_processed of the product, never mark_failed; update_stats adds these
\* numbers to total_inserted and total_failed; and when the calls have
\* returned the product is in processed_products, it is in failed_products
\* only if it was when the run started, and the loop of the same run goes on.
C29_PartialInsertFailure ==
    /\ [][(pc = "insert" /\ pc' # "insert") =>
            /\ pc' = "ckpt"
            /\ ops' = <<UpdateStatsOp(ops'[1].inserted, ops'[1].failed, 0),
                        MarkProcessedOp(product_id)>>
            /\ ops'[1].inserted + ops'[1].failed = Len(new_entries)
            /\ ops'[1].inserted >= Cardinality(store' \ store)
            /\ ~coverageFailed => ops'[1].inserted = Cardinality(store' \ store)
            /\ ops'[1].failed >= 0]_vars
    /\ [][(AfterInsert /\ opi = 1 /\ phase = "mutate") =>
            /\ data'.stats.total_inserted = data.stats.total_inserted + ops[1].inserted
            /\ data'.stats.total_failed = data.stats.total_failed + ops[1].failed
            /\ data'.stats.total_skipped = data.stats.total_skipped]_vars
    /\ [][(AfterInsert /\ pc' # "ckpt") =>
            /\ pc' = "loop"
            /\ run' = run
            /\ idx' = idx
            /\ products_to_process' = products_to_process
            /\ product_id \in Processed(data')
            /\ product_id \in Failed(data') => product_id \in Failed(loaded)]_vars

\* The run has gone on to fetch for the second product after a product of
\* which one entry was inserted and one failed: total_failed counts an entry
\* while no product is marked failed.
C29_NextItemAfterPartialInsert ==
    /\ pc = "attempt"
    /\ idx = 2
    /\ run = 1
    /\ data.stats.total_inserted = 1
    /\ data.stats.total_failed = 1
    /\ Failed(data) = {}
    /\ products_to_process[1] \in Processed(data)

\* ------------------------------------------------------------------ C30
TakenUp == {products_to_process[i] : i \in 1..(IF pc = "loop" \/ pc = "done" THEN idx ELSE idx - 1)}
NotYetTakenUp == {products_to_process[i] : i \in (idx + 1)..Len(products_to_process)}
SkipShape(o, p) == o = <<MarkProcessedOp(p), UpdateStatsOp(0, 0, 1)>>
FailShape(o, p) == o = <<MarkFailedOp(p), UpdateStatsOp(0, 1, 0)>>
InsertShape(o, p) ==
    /\ Len(o) = 2
    /\ o[1] = UpdateStatsOp(o[1].inserted, o[1].failed, 0)
    /\ o[1].inserted + o[1].failed >= 1
    /\ o[2] = MarkProcessedOp(p)

\* C30: every run that starts reaches its end; a run takes up exactly the
\* products that were not processed when it started, one after the other;
\* for each of them it makes the checkpoint calls of exactly one decision:
\* mark_processed with skipped + 1, or mark_failed with failed + 1, or the
\* insert counts with mark_processed; and once these calls have returned the
\* product is in processed_products or, if not, in failed_products, while a
\* product the run has not come to yet is in neither list unless an earlier
\* run left it in failed_products.  At the end of the run this holds of every
\* product that was not processed at its start.
C30_EveryItemDecided ==
    /\ (pc = "init") ~> (pc = "done")
    /\ [](pc # "init" =>
            /\ SeqRange(products_to_process) = Products \ Processed(loaded)
            /\ NoIdTwice(products_to_process)
            /\ \A p \in TakenUp :
                  /\ p \in Processed(data) \/ p \in Failed(data)
                  /\ p \in Processed(data) => (p \in Failed(data) => p \in Failed(loaded))
            /\ \A p \in NotYetTakenUp :
                  p \notin Processed(data) /\ (p \in Failed(data) => p \in Failed(loaded)))
    /\ [](pc = "done" => TakenUp = Products \ Processed(loaded))
    /\ [](pc = "ckpt" =>
            \/ SkipShape(ops, product_id)
            \/ FailShape(ops, product_id)
            \/ InsertShape(ops, product_id))
    /\ [][(pc = "ckpt" /\ data' # data) => data' = Applied(data, ops[opi])]_vars
    /\ [][data' # data => (pc \in {"ckpt", "init"} \/ pc' = "init")]_vars
    /\ [][(idx' # idx /\ pc' # "init" /\ pc # "init") => (pc = "loop" /\ idx' = idx + 1)]_vars
    /\ [][(pc = "ckpt" /\ pc' # "ckpt") => (pc' = "loop" /\ opi = Len(ops))]_vars
    /\ [][(pc # "ckpt" /\ pc' = "ckpt") => opi' = 1]_vars

\* A run has ended in which one product was inserted and marked processed
\* and the other failed all its attempts and was marked failed.
C30_RunEndedWithBothOutcomes ==
    /\ pc = "done"
    /\ run = 1
    /\ Len(products_to_process) = 2
    /\ Cardinality(Processed(data)) = 1
    /\ Cardinality(Failed(data)) = 1
    /\ data.stats.total_inserted > 0
    /\ data.stats.total_failed = 1

====
